---- MODULE Spec2Model ----
(***************************************************************************)
(* Model of train_imagenet.py: the training driver of a concept-whitening  *)
(* classifier.  main() runs five epochs of train()/validate()/             *)
(* save_checkpoint() and then print_concept_top5(); train() interleaves a   *)
(* concept-calibration sub-pass with the classification steps.  The        *)
(* inspection functions get_optimal_direction(), rotate_cpt() and          *)
(* print_concept_top5() are also driven directly, as in the evaluate       *)
(* branch of main().                                                       *)
(*                                                                         *)
(* Tensors are abstracted to version numbers (a version changes exactly    *)
(* when the tensor is written); per-image activations are abstracted to    *)
(* small integer scores.                                                   *)
(***************************************************************************)
EXTENDS Integers, Sequences, FiniteSets, TLC

(***************************************************************************)
(* Program constants                                                       *)
(***************************************************************************)
NORMAL == 0
CALIBRATE == 1
Cadence == 2
NumEpochs == 5
RotRounds == 10
TopK == 50
OtherBegin == 1
OtherEnd == 11
DefaultBest == 0
DefaultStartEpoch == 0
LrDecayEvery == 50

(***************************************************************************)
(* Bounds of the model                                                     *)
(***************************************************************************)
MaxTrainBatches == 3
MaxConceptBatches == 2
MaxStartEpoch == 1
MaxCkptEpoch == 2
MaxPrec == 1
MaxShort == 1
MaxExtra == 1
MaxPat == 2
BatchSize == 20
ScoreMod == 3
MaxCalls == 2

VARIABLES
    pc,               \* position of the single thread of control
    entry,            \* the driver: main's epoch loop, or its evaluate branch
    startEpochArg,    \* --start-epoch as parsed from the command line
    resume,           \* args.resume is a non-empty path
    fileExists,       \* os.path.isfile(args.resume) after the path rewrite
    resumeCkpt,       \* content of the file at the resume path
    start_epoch,      \* args.start_epoch
    best_prec1,       \* global best_prec1
    whitened_layers,  \* args.whitened_layers, split at ','
    nTrain,           \* number of batches of train_loader
    nConcept,         \* number of batches of concept_loader
    valImages,        \* number of images under valdir
    valPat,           \* content of the validation images (selects their activations)
    epoch,            \* loop variable of main
    i,                \* batch index of train_loader in train
    j,                \* batch index of concept_loader
    vi,               \* batch index of val_loader
    rnd,              \* round of rotate_cpt
    prec1,            \* result of validate
    training,         \* model.training
    mode,             \* mode of the whitening layers
    grad,             \* gradient tracking enabled
    params,           \* version of the parameters the optimizer steps
    optState,         \* version of the optimizer state (momentum buffers)
    lrExp,            \* exponent of the learning-rate decay set by adjust_learning_rate
    gradsFresh,       \* loss.backward() has filled the gradients of this batch
    runningMean,      \* version of running_mean
    runningWM,        \* version of running_wm
    rotationMatrix,   \* version of running_rot
    running_rot,      \* value of one block of running_rot: a matrix over a denominator
    stateLoaded,      \* model.load_state_dict was called
    optLoaded,        \* optimizer.load_state_dict was called
    log,              \* messages printed by the resume code
    checkpoint,       \* content of ./checkpoints/<prefix>_checkpoint.pth.tar
    model_best,       \* content of ./checkpoints/<prefix>_model_best.pth.tar
    hooks,            \* forward hooks registered on the bn1 modules, in registration order
    outputs,          \* the `outputs` list of every call that registered hooks
    cur,              \* index in outputs of the list of the running call
    print_other,      \* parameter of the running print_concept_top5 call
    k,                \* axis loop variable of print_concept_top5
    li,               \* index in layer_list of the export loop of print_concept_top5
    paths,            \* paths list of print_concept_top5
    vals,             \* vals array of print_concept_top5, one row per captured tensor
    files,            \* exported files: name -> source image, and who wrote the name
    rowBlocks,        \* the block each row of vals was captured at
    lastRet,          \* the inspection function that returned last
    calls,            \* number of inspection calls made by the evaluate driver
    lastOp,           \* the last model operation, with the flags it ran under
    trainLog,         \* events of the running train call
    calibFwd,         \* forward passes of the running calibration sub-pass
    snap,             \* versions at the start of the running calibration sub-pass
    preLen,           \* length of the running call's list when its last forward pass started
    bestSeen,         \* {the largest value validate has returned to main}; {} before the first
    conceptOrder,     \* batch order of the running iteration over concept_loader in train
    commonOrder,      \* the batch order of every iteration of the sub-passes so far, while they agree
    orderVaried,      \* two iterations of the sub-passes have drawn different batch orders
    usedPos,          \* the positions of their iterations the sub-passes have consumed
    usedBatches       \* the batches the sub-passes have consumed, while the orders agree

ctlVars == <<pc, epoch, i, j, vi, rnd, prec1, calls>>
argVars == <<entry, startEpochArg, resume, fileExists, resumeCkpt, whitened_layers, nTrain, nConcept,
             valImages, valPat>>
resVars == <<start_epoch, best_prec1, stateLoaded, optLoaded, log>>
flagVars == <<training, mode, grad>>
optVars == <<params, optState, lrExp, gradsFresh>>
statVars == <<runningMean, runningWM, rotationMatrix, running_rot>>
diskVars == <<checkpoint, model_best>>
hookVars == <<hooks, outputs, cur, preLen>>
rankVars == <<print_other, k, li, paths, vals, files, rowBlocks, lastRet>>
ghostVars == <<lastOp, trainLog, calibFwd, snap, bestSeen, conceptOrder, commonOrder,
              orderVaried, usedPos, usedBatches>>
vars == <<ctlVars, argVars, resVars, flagVars, optVars, statVars, diskVars,
          hookVars, rankVars, ghostVars>>

NoFile == [epoch |-> -1]
NoOp == [kind |-> "none", training |-> FALSE, grad |-> FALSE, mode |-> NORMAL]
NoSnap == [params |-> -1, optState |-> -1, runningMean |-> -1, runningWM |-> -1,
           rotationMatrix |-> -1]

Op(kind) == [kind |-> kind, training |-> training, grad |-> grad, mode |-> mode]

(***************************************************************************)
(* The backbone: residual stages and their blocks                          *)
(***************************************************************************)
\* model.layers: the number of blocks of each of the four residual stages (the
\* 18-layer backbone).
layers == <<2, 2, 2, 2>>

NumBlocks == layers[1] + layers[2] + layers[3] + layers[4]

\* int(layer) for a decimal numeral.
IntOf(s) == CHOOSE n \in 0..(NumBlocks + 1) : ToString(n) = s

\* A chain whose second branch registers on the first stage.
HookTargetCopyPaste(layer) ==
    IF layer <= layers[1] THEN <<1, layer - 1>>
    ELSE IF layer <= layers[1] + layers[2] THEN <<1, layer - layers[1] - 1>>
    ELSE IF layer <= layers[1] + layers[2] + layers[3]
        THEN <<3, layer - layers[1] - layers[2] - 1>>
    ELSE IF layer <= layers[1] + layers[2] + layers[3] + layers[4]
        THEN <<4, layer - layers[1] - layers[2] - layers[3] - 1>>
    ELSE <<>>

\* The bn1 module a configured layer selects (stage, index in the stage, 0-based),
\* or <<>> when no branch of the chain matches.
HookTarget(layer) ==
    IF layer <= layers[1] THEN <<1, layer - 1>>
    ELSE IF layer <= layers[1] + layers[2] THEN <<2, layer - layers[1] - 1>>
    ELSE IF layer <= layers[1] + layers[2] + layers[3]
        THEN <<3, layer - layers[1] - layers[2] - 1>>
    ELSE IF layer <= layers[1] + layers[2] + layers[3] + layers[4]
        THEN <<4, layer - layers[1] - layers[2] - layers[3] - 1>>
    ELSE <<>>

\* Position of a block in the forward pass: stages run in order, and the blocks
\* of a stage in index order.
RECURSIVE BlocksBefore(_)
BlocksBefore(stage) == IF stage <= 1 THEN 0 ELSE BlocksBefore(stage - 1) + layers[stage - 1]

BlockPos(b) == BlocksBefore(b[1]) + b[2] + 1

\* The blocks whose bn1 is a whitening layer: the configured layers, by the same
\* chain.
WhitenedBlocks ==
    {HookTarget(IntOf(whitened_layers[n])) : n \in 1..Len(whitened_layers)} \ {<<>>}

\* register_forward_hook(hook) for every configured layer, in configuration order.
RECURSIVE Register(_, _, _, _)
Register(hs, layer_list, fn, cell) ==
    IF layer_list = <<>> THEN hs
    ELSE LET b == HookTarget(IntOf(Head(layer_list)))
             hs1 == IF b = <<>> THEN hs
                    ELSE Append(hs, [block |-> b, fn |-> fn, cell |-> cell])
         IN Register(hs1, Tail(layer_list), fn, cell)

\* The hooks in the order a forward pass calls them: by block position, and on
\* one module in registration order.
RECURSIVE Fired(_)
Fired(p) ==
    IF p = 0 THEN <<>>
    ELSE Fired(p - 1) \o SelectSeq(hooks, LAMBDA h : BlockPos(h.block) = p)

\* What a hook appends for one forward pass over batch b of a loader.
Captured(h, loader, b) ==
    [block |-> BlockPos(h.block), fn |-> h.fn, loader |-> loader, batch |-> b]

\* The outputs lists after one forward pass.
AfterForward(outs, loader, b) ==
    [c \in DOMAIN outs |->
        LET mine == SelectSeq(Fired(NumBlocks), LAMBDA h : h.cell = c)
        IN outs[c] \o [n \in 1..Len(mine) |-> Captured(mine[n], loader, b)]]

(***************************************************************************)
(* The whitening layers                                                    *)
(***************************************************************************)
\* model.module.change_mode(m): sets the mode of every whitening layer.
ChangeMode(m) == m

\* The running statistics after a forward pass: updated in training mode only.
StatsAfterForward(v) == IF training THEN v + 1 ELSE v

\* The rotation matrix after a forward pass: updated in CALIBRATE mode only.
RotAfterForward(v) == IF mode = CALIBRATE THEN v + 1 ELSE v

(***************************************************************************)
(* The rotation matrix: a 2 x 2 block in exact rational arithmetic         *)
(***************************************************************************)
Identity2 == <<<<1, 0>>, <<0, 1>>>>

MatAdd(A, B) == [r \in 1..2 |-> [c \in 1..2 |-> A[r][c] + B[r][c]]]

MatSub(A, B) == [r \in 1..2 |-> [c \in 1..2 |-> A[r][c] - B[r][c]]]

MatMul(A, B) == [r \in 1..2 |-> [c \in 1..2 |-> A[r][1] * B[1][c] + A[r][2] * B[2][c]]]

Transpose(A) == [r \in 1..2 |-> [c \in 1..2 |-> A[c][r]]]

Det(A) == A[1][1] * A[2][2] - A[1][2] * A[2][1]

\* The adjugate: Adj(A) / Det(A) is the inverse of A.
Adj(A) == <<<<A[2][2], -A[1][2]>>, <<-A[2][1], A[1][1]>>>>

\* The matrix M / den in lowest terms.
Reduced(M, den) ==
    LET g == CHOOSE d \in 1..den :
                 /\ den % d = 0
                 /\ \A r, c \in 1..2 : M[r][c] % d = 0
                 /\ \A e \in (d + 1)..den :
                        ~(den % e = 0 /\ \A r, c \in 1..2 : M[r][c] % e = 0)
    IN [m |-> [r \in 1..2 |-> [c \in 1..2 |-> M[r][c] \div g]], den |-> den \div g]

\* The rotation matrix of a freshly constructed whitening layer.
InitialRot == [m |-> Identity2, den |-> 1]

\* The skew-symmetric generator a concept batch yields: the direction that
\* raises the alignment of the reserved axis with that batch.
Generator(loader, b) ==
    LET a == IF b % 2 = 0 THEN 1 ELSE -1 IN <<<<0, a>>, <<-a, 0>>>>

\* An unconstrained gradient step: R + A R.
GradientStep(R, A) == [m |-> MatAdd(R.m, MatMul(A, R.m)), den |-> R.den]

\* The calibration update: the generator applied through the Cayley
\* retraction, (I + A)^-1 (I - A) R.
RotStep(R, A) ==
    Reduced(MatMul(MatMul(Adj(MatAdd(Identity2, A)), MatSub(Identity2, A)), R.m),
            Det(MatAdd(Identity2, A)) * R.den)

\* The rotation matrix in a checkpoint the program wrote after n updates.
RECURSIVE SavedRot(_)
SavedRot(n) ==
    IF n = 0 THEN InitialRot ELSE RotStep(SavedRot(n - 1), Generator("concept", 0))

\* model(X): one forward pass over batch b of a loader, the lists being outs.
ModelForward(outs, kind, loader, b) ==
    /\ runningMean' = StatsAfterForward(runningMean)
    /\ runningWM' = StatsAfterForward(runningWM)
    /\ rotationMatrix' = RotAfterForward(rotationMatrix)
    /\ running_rot' = IF mode = CALIBRATE
                      THEN RotStep(running_rot, Generator(loader, b))
                      ELSE running_rot
    /\ outputs' = AfterForward(outs, loader, b)
    /\ lastOp' = Op(kind)

(***************************************************************************)
(* Inputs                                                                  *)
(***************************************************************************)
\* Checkpoint files a resume path can name.
Ckpts ==
    [epoch : {1, MaxCkptEpoch}, best_prec1 : 0..MaxPrec, hasOpt : BOOLEAN]

\* --whitened_layers values: the default, a single layer, a descending list, a
\* repeated layer, and lists naming a depth the backbone does not have.
LayerConfigs ==
    { <<"1", "2", "3">>, <<"3">>, <<"4", "1">>, <<"3", "3">>, <<"3", "9">>, <<"9">> }

DefaultLayers == <<"1", "2", "3">>

\* Sizes of the validation set: fewer images than TopK, TopK, and more.
ValSizes == {TopK - MaxShort, TopK, TopK + MaxExtra}

\* Contents of the validation set: all scores equal (0), and scores that vary
\* from image to image.
ValPats == {0, 1, MaxPat}

\* len(val_loader): batches of BatchSize images, the last one possibly short.
NumValBatches == (valImages + BatchSize - 1) \div BatchSize

\* State after argument parsing and the construction of the model, the optimizer
\* and the data loaders.  ImageFolder refuses a directory without images, so
\* every loader has at least one batch.
Setup(at) ==
    /\ pc = at
    /\ entry = at
    /\ start_epoch = startEpochArg
    /\ best_prec1 = DefaultBest
    /\ epoch = 0 /\ i = 0 /\ j = 0 /\ vi = 0 /\ rnd = 0 /\ prec1 = 0 /\ calls = 0
    /\ training = TRUE /\ mode = NORMAL /\ grad = TRUE
    /\ params = 0 /\ optState = 0 /\ lrExp = 0 /\ gradsFresh = FALSE
    /\ runningMean = 0 /\ runningWM = 0 /\ rotationMatrix = 0
    /\ running_rot = InitialRot
    /\ stateLoaded = FALSE /\ optLoaded = FALSE /\ log = {}
    /\ checkpoint = NoFile /\ model_best = NoFile
    /\ hooks = <<>> /\ outputs = <<>> /\ cur = 0 /\ preLen = 0
    /\ print_other = FALSE /\ k = 0 /\ li = 0 /\ paths = <<>> /\ vals = <<>>
    /\ files = <<>> /\ rowBlocks = <<>> /\ lastRet = "none"
    /\ lastOp = NoOp /\ trainLog = <<>> /\ calibFwd = 0 /\ snap = NoSnap
    /\ bestSeen = {}
    /\ conceptOrder = <<>> /\ commonOrder = <<>> /\ orderVaried = FALSE
    /\ usedPos = {} /\ usedBatches = {}

\* main() with any resume arguments, on the smallest loaders.
InitResume ==
    /\ startEpochArg \in DefaultStartEpoch..MaxStartEpoch
    /\ resume \in BOOLEAN
    /\ fileExists \in (IF resume THEN BOOLEAN ELSE {FALSE})
    /\ resumeCkpt \in (IF fileExists THEN Ckpts ELSE {NoFile})
    /\ nTrain = 1
    /\ nConcept = 1
    /\ whitened_layers = DefaultLayers
    /\ valImages = TopK
    /\ valPat = 1
    /\ Setup("main")

\* main() without resume, with loaders of any size.
InitTrain ==
    /\ startEpochArg = DefaultStartEpoch
    /\ resume = FALSE /\ fileExists = FALSE /\ resumeCkpt = NoFile
    /\ nTrain \in 1..MaxTrainBatches
    /\ nConcept \in 1..MaxConceptBatches
    /\ whitened_layers = DefaultLayers
    /\ valImages = TopK
    /\ valPat = 1
    /\ Setup("main")

\* main() without resume on the smallest loaders, with any layers and validation set.
InitRank ==
    /\ startEpochArg = DefaultStartEpoch
    /\ resume = FALSE /\ fileExists = FALSE /\ resumeCkpt = NoFile
    /\ nTrain = 1
    /\ nConcept = 1
    /\ whitened_layers \in LayerConfigs
    /\ valImages \in ValSizes
    /\ valPat \in ValPats
    /\ Setup("main")

\* The evaluate branch of main(): the inspection functions called directly, with
\* the largest concept loader and any layers.
InitEval ==
    /\ startEpochArg = DefaultStartEpoch
    /\ resume = FALSE /\ fileExists = FALSE /\ resumeCkpt = NoFile
    /\ nTrain = 1
    /\ nConcept = MaxConceptBatches
    /\ whitened_layers \in LayerConfigs
    /\ valImages = TopK
    /\ valPat = 1
    /\ Setup("evaluate")

Init == InitResume \/ InitTrain \/ InitRank \/ InitEval

(***************************************************************************)
(* main(): resume                                                          *)
(***************************************************************************)
\* A resume that falls back to epoch 0 when no checkpoint is loaded.
EpochZero == DefaultStartEpoch

\* The epoch main starts from when no checkpoint is loaded.
EpochWithoutCheckpoint == start_epoch

MainResume ==
    /\ pc = "main"
    /\ IF resume /\ fileExists
       THEN /\ start_epoch' = resumeCkpt.epoch
            /\ best_prec1' = resumeCkpt.best_prec1
            /\ stateLoaded' = TRUE
            /\ params' = resumeCkpt.epoch
            /\ runningMean' = resumeCkpt.epoch
            /\ runningWM' = resumeCkpt.epoch
            /\ rotationMatrix' = resumeCkpt.epoch
            /\ running_rot' = SavedRot(resumeCkpt.epoch)
            /\ optLoaded' = resumeCkpt.hasOpt
            /\ optState' = IF resumeCkpt.hasOpt THEN resumeCkpt.epoch ELSE optState
            /\ log' = log \cup {"loading checkpoint", "loaded checkpoint"}
       ELSE /\ start_epoch' = EpochWithoutCheckpoint
            /\ log' = IF resume THEN log \cup {"no checkpoint found"} ELSE log
            /\ UNCHANGED <<best_prec1, stateLoaded, optLoaded, params, optState,
                           statVars>>
    /\ epoch' = start_epoch'
    /\ pc' = "epoch_loop"
    /\ UNCHANGED <<i, j, vi, rnd, prec1, calls, argVars, flagVars, lrExp, gradsFresh,
                   diskVars, hookVars, rankVars, ghostVars>>

(***************************************************************************)
(* main(): the epoch loop, and train()                                     *)
(***************************************************************************)
\* An epoch whose train call does not switch the model to training mode.
EpochBeginNoTrainMode ==
    /\ pc = "epoch_loop"
    /\ epoch < start_epoch + NumEpochs
    /\ lrExp' = epoch \div LrDecayEvery
    /\ i' = 0
    /\ trainLog' = <<>>
    /\ pc' = "train_loop"
    /\ UNCHANGED <<epoch, j, vi, rnd, prec1, calls, argVars, resVars, mode, grad,
                   params, optState, gradsFresh, statVars, diskVars, hookVars,
                   rankVars, lastOp, calibFwd, snap, training,
                   bestSeen, conceptOrder, commonOrder, orderVaried, usedPos,
                   usedBatches>>

\* adjust_learning_rate and the entry of train: model.train().
EpochBegin ==
    /\ pc = "epoch_loop"
    /\ epoch < start_epoch + NumEpochs
    /\ lrExp' = epoch \div LrDecayEvery
    /\ training' = TRUE
    /\ i' = 0
    /\ trainLog' = <<>>
    /\ pc' = "train_loop"
    /\ UNCHANGED <<epoch, j, vi, rnd, prec1, calls, argVars, resVars, mode, grad,
                   params, optState, gradsFresh, statVars, diskVars, hookVars,
                   rankVars, lastOp, calibFwd, snap,
                   bestSeen, conceptOrder, commonOrder, orderVaried, usedPos,
                   usedBatches>>

\* A cadence test that is off by one batch.
NeedsCalibrationOffByOne(b) == b % Cadence = 0

\* The test that starts a calibration sub-pass before batch i.
NeedsCalibration(b) == (b + 1) % Cadence = 0

\* The batch orders an iteration over concept_loader can draw (shuffle=True):
\* the cyclic shifts of the stored order of its n batches.
Orders(n) == {[q \in 1..n |-> (q - 1 + sh) % n] : sh \in 0..(n - 1)}

\* An iterator kept from one sub-pass to the next: it goes on after the batch
\* the previous sub-pass consumed.
CarriedIterator == IF j + 1 < nConcept THEN j + 1 ELSE 0

\* enumerate(concept_loader) in the for statement: a new iterator, at its
\* first batch.
FreshIterator == 0

\* A sub-pass that starts without model.eval().
CalibBeginNoEval ==
    /\ pc = "train_loop"
    /\ i < nTrain
    /\ NeedsCalibration(i)
    /\ mode' = ChangeMode(CALIBRATE)
    /\ grad' = FALSE
    /\ \E o \in Orders(nConcept) :
           /\ conceptOrder' = o
           /\ orderVaried' = (orderVaried \/ commonOrder \notin {<<>>, o})
           /\ commonOrder' = IF orderVaried' THEN <<>> ELSE o
           /\ usedBatches' = IF orderVaried' THEN {} ELSE usedBatches
    /\ j' = FreshIterator
    /\ calibFwd' = 0
    /\ snap' = [params |-> params, optState |-> optState,
                runningMean |-> runningMean, runningWM |-> runningWM,
                rotationMatrix |-> rotationMatrix]
    /\ pc' = "calib_loop"
    /\ UNCHANGED <<epoch, i, vi, rnd, prec1, calls, argVars, resVars, optVars,
                   statVars, diskVars, hookVars, rankVars, lastOp, trainLog,
                   training,
                   bestSeen, usedPos>>

\* Start of a sub-pass: model.eval(), change_mode(1), torch.no_grad().
CalibBegin ==
    /\ pc = "train_loop"
    /\ i < nTrain
    /\ NeedsCalibration(i)
    /\ training' = FALSE
    /\ mode' = ChangeMode(CALIBRATE)
    /\ grad' = FALSE
    /\ \E o \in Orders(nConcept) :
           /\ conceptOrder' = o
           /\ orderVaried' = (orderVaried \/ commonOrder \notin {<<>>, o})
           /\ commonOrder' = IF orderVaried' THEN <<>> ELSE o
           /\ usedBatches' = IF orderVaried' THEN {} ELSE usedBatches
    /\ j' = FreshIterator
    /\ calibFwd' = 0
    /\ snap' = [params |-> params, optState |-> optState,
                runningMean |-> runningMean, runningWM |-> runningWM,
                rotationMatrix |-> rotationMatrix]
    /\ pc' = "calib_loop"
    /\ UNCHANGED <<epoch, i, vi, rnd, prec1, calls, argVars, resVars, optVars,
                   statVars, diskVars, hookVars, rankVars, lastOp, trainLog,
                   bestSeen, usedPos>>

\* A concept loop without the break: it goes on with the next batch.
AfterConceptBatchNoBreak(b) == [pc |-> "calib_loop", j |-> b + 1]

\* Where the concept loop goes after the forward pass of batch b: break.
AfterConceptBatch(b) == [pc |-> "calib_end", j |-> b]

\* for j, (X, _) in enumerate(concept_loader): model(X_var); break
CalibLoop ==
    /\ pc = "calib_loop"
    /\ IF j < nConcept
       THEN /\ ModelForward(outputs, "concept_fwd", "concept", conceptOrder[j + 1])
            /\ usedPos' = usedPos \cup {j}
            /\ usedBatches' = IF orderVaried THEN {}
                               ELSE usedBatches \cup {conceptOrder[j + 1]}
            /\ calibFwd' = calibFwd + 1
            /\ pc' = AfterConceptBatch(j).pc
            /\ j' = AfterConceptBatch(j).j
       ELSE /\ pc' = "calib_end"
            /\ UNCHANGED <<j, calibFwd, statVars, outputs, lastOp, usedPos, usedBatches>>
    /\ UNCHANGED <<epoch, i, vi, rnd, prec1, calls, argVars, resVars, flagVars,
                   optVars, diskVars, hooks, cur, preLen, rankVars, trainLog, snap,
                   bestSeen, conceptOrder, commonOrder, orderVaried>>

\* A sub-pass that ends without change_mode(0).
CalibEndKeepsMode ==
    /\ pc = "calib_end"
    /\ grad' = TRUE
    /\ training' = TRUE
    /\ trainLog' = Append(trainLog, <<"calib", i>>)
    /\ conceptOrder' = <<>>
    /\ pc' = "classify"
    /\ UNCHANGED <<epoch, i, j, vi, rnd, prec1, calls, argVars, resVars, optVars,
                   statVars, diskVars, hookVars, rankVars, lastOp, calibFwd, snap,
                   mode,
                   bestSeen, commonOrder, orderVaried, usedPos,
                   usedBatches>>

\* End of a sub-pass: leave no_grad, change_mode(0), model.train().
CalibEnd ==
    /\ pc = "calib_end"
    /\ grad' = TRUE
    /\ mode' = ChangeMode(NORMAL)
    /\ training' = TRUE
    /\ trainLog' = Append(trainLog, <<"calib", i>>)
    /\ conceptOrder' = <<>>
    /\ pc' = "classify"
    /\ UNCHANGED <<epoch, i, j, vi, rnd, prec1, calls, argVars, resVars, optVars,
                   statVars, diskVars, hookVars, rankVars, lastOp, calibFwd, snap,
                   bestSeen, commonOrder, orderVaried, usedPos,
                   usedBatches>>

\* Batch i is not preceded by a sub-pass.
NoCalib ==
    /\ pc = "train_loop"
    /\ i < nTrain
    /\ ~NeedsCalibration(i)
    /\ pc' = "classify"
    /\ UNCHANGED <<epoch, i, j, vi, rnd, prec1, calls, argVars, resVars, flagVars,
                   optVars, statVars, diskVars, hookVars, rankVars, ghostVars>>

\* output = model(input_var); loss = criterion(output, target_var)
Classify ==
    /\ pc = "classify"
    /\ ModelForward(outputs, "classify_fwd", "train", i)
    /\ trainLog' = Append(trainLog, <<"fwd", i>>)
    /\ pc' = "backward"
    /\ UNCHANGED <<epoch, i, j, vi, rnd, prec1, calls, argVars, resVars, flagVars,
                   optVars, diskVars, hooks, cur, preLen, rankVars, calibFwd, snap,
                   bestSeen, conceptOrder, commonOrder, orderVaried, usedPos,
                   usedBatches>>

\* optimizer.zero_grad(); loss.backward()
Backward ==
    /\ pc = "backward"
    /\ gradsFresh' = TRUE
    /\ lastOp' = Op("backward")
    /\ pc' = "step"
    /\ UNCHANGED <<epoch, i, j, vi, rnd, prec1, calls, argVars, resVars, flagVars,
                   params, optState, lrExp, statVars, diskVars, hookVars, rankVars,
                   trainLog, calibFwd, snap,
                   bestSeen, conceptOrder, commonOrder, orderVaried, usedPos,
                   usedBatches>>

\* optimizer.step(), and the loop goes to the next batch.
OptimStep ==
    /\ pc = "step"
    /\ params' = params + 1
    /\ optState' = optState + 1
    /\ gradsFresh' = FALSE
    /\ lastOp' = Op("optim_step")
    /\ trainLog' = Append(trainLog, <<"step", i>>)
    /\ i' = i + 1
    /\ pc' = "train_loop"
    /\ UNCHANGED <<epoch, j, vi, rnd, prec1, calls, argVars, resVars, flagVars,
                   lrExp, statVars, diskVars, hookVars, rankVars, calibFwd, snap,
                   bestSeen, conceptOrder, commonOrder, orderVaried, usedPos,
                   usedBatches>>

(***************************************************************************)
(* validate() and save_checkpoint()                                        *)
(***************************************************************************)
\* train returns; validate: model.eval(), torch.no_grad().
ValidateBegin ==
    /\ pc = "train_loop"
    /\ i >= nTrain
    /\ training' = FALSE
    /\ grad' = FALSE
    /\ vi' = 0
    /\ pc' = "val_loop"
    /\ UNCHANGED <<epoch, i, j, rnd, prec1, calls, argVars, resVars, mode, optVars,
                   statVars, diskVars, hookVars, rankVars, ghostVars>>

ValForward ==
    /\ pc = "val_loop"
    /\ vi < NumValBatches
    /\ ModelForward(outputs, "val_fwd", "val", vi)
    /\ vi' = vi + 1
    /\ UNCHANGED <<pc, epoch, i, j, rnd, prec1, calls, argVars, resVars, flagVars,
                   optVars, diskVars, hooks, cur, preLen, rankVars, trainLog,
                   calibFwd, snap,
                   bestSeen, conceptOrder, commonOrder, orderVaried, usedPos,
                   usedBatches>>

\* The largest element of a non-empty set of scores.
Largest(S) == CHOOSE x \in S : \A y \in S : y <= x

\* validate returns top1.avg.
ValidateEnd ==
    /\ pc = "val_loop"
    /\ vi >= NumValBatches
    /\ grad' = TRUE
    /\ prec1' \in 0..MaxPrec
    /\ bestSeen' = {Largest(bestSeen \cup {prec1'})}
    /\ pc' = "save"
    /\ UNCHANGED <<epoch, i, j, vi, rnd, calls, argVars, resVars, training, mode,
                   optVars, statVars, diskVars, hookVars, rankVars, lastOp, trainLog, calibFwd,
                   snap, conceptOrder, commonOrder, orderVaried, usedPos,
                   usedBatches>>

\* A best score that is the latest score.
MaxLatest(a, b) == a

Max(a, b) == IF a >= b THEN a ELSE b

\* is_best, best_prec1 = max(prec1, best_prec1), save_checkpoint(...).
SaveCheckpoint ==
    /\ pc = "save"
    /\ LET is_best == prec1 > best_prec1
           state == [epoch |-> epoch + 1, best_prec1 |-> Max(prec1, best_prec1),
                     hasOpt |-> TRUE]
       IN /\ best_prec1' = Max(prec1, best_prec1)
          /\ checkpoint' = state
          /\ model_best' = IF is_best THEN state ELSE model_best
    /\ lastOp' = Op("save")
    /\ epoch' = epoch + 1
    /\ pc' = "epoch_loop"
    /\ UNCHANGED <<i, j, vi, rnd, prec1, calls, argVars, start_epoch, stateLoaded,
                   optLoaded, log, flagVars, optVars, statVars, hookVars, rankVars,
                   trainLog, calibFwd, snap,
                   bestSeen, conceptOrder, commonOrder, orderVaried, usedPos,
                   usedBatches>>

NextTrain ==
    \/ MainResume \/ EpochBegin \/ CalibBegin \/ CalibLoop \/ CalibEnd \/ NoCalib
    \/ Classify \/ Backward \/ OptimStep \/ ValidateBegin \/ ValForward
    \/ ValidateEnd \/ SaveCheckpoint

(***************************************************************************)
(* get_optimal_direction() and rotate_cpt()                                *)
(***************************************************************************)
\* A call made by the evaluate branch.
Call == pc = "evaluate" /\ calls < MaxCalls /\ calls' = calls + 1

\* outputs = [], the hooks are registered, torch.no_grad(), model.eval().
GodBegin ==
    /\ Call
    /\ outputs' = Append(outputs, <<>>)
    /\ cur' = Len(outputs) + 1
    /\ hooks' = Register(hooks, whitened_layers, "god", Len(outputs) + 1)
    /\ grad' = FALSE
    /\ training' = FALSE
    /\ j' = 0
    /\ pc' = "god_loop"
    /\ UNCHANGED <<epoch, i, vi, rnd, prec1, argVars, resVars, mode, optVars,
                   statVars, diskVars, preLen, rankVars, ghostVars>>

\* for X, _ in concept_loader: model(X_var)
GodForward ==
    /\ pc = "god_loop"
    /\ j < nConcept
    /\ preLen' = Len(outputs[cur])
    /\ ModelForward(outputs, "god_fwd", "concept", j)
    /\ j' = j + 1
    /\ UNCHANGED <<pc, epoch, i, vi, rnd, prec1, calls, argVars, resVars, flagVars,
                   optVars, diskVars, hooks, cur, rankVars, trainLog, calibFwd, snap,
                   bestSeen, conceptOrder, commonOrder, orderVaried, usedPos,
                   usedBatches>>

\* The mean over the list is taken and returned.
GodEnd ==
    /\ pc = "god_loop"
    /\ j >= nConcept
    /\ grad' = TRUE
    /\ lastRet' = "get_optimal_direction"
    /\ pc' = "evaluate"
    /\ UNCHANGED <<epoch, i, j, vi, rnd, prec1, calls, argVars, resVars, training,
                   mode, optVars, statVars, diskVars, hookVars, print_other, k, li,
                   paths, vals, files, rowBlocks, ghostVars>>

\* model.eval(), change_mode(1), torch.no_grad().
RotBegin ==
    /\ Call
    /\ training' = FALSE
    /\ mode' = ChangeMode(CALIBRATE)
    /\ grad' = FALSE
    /\ rnd' = 0
    /\ j' = 0
    /\ pc' = "rot_loop"
    /\ UNCHANGED <<epoch, i, vi, prec1, argVars, resVars, optVars, statVars,
                   diskVars, hookVars, rankVars, ghostVars>>

\* model(X_var) for the next concept batch of round rnd, and the alignment of
\* layer2[0].bn1.running_rot is printed: an attribute only a whitening layer has.
RotForward ==
    /\ pc = "rot_loop"
    /\ rnd < RotRounds
    /\ j < nConcept
    /\ ModelForward(outputs, "rot_fwd", "concept", j)
    /\ IF <<2, 0>> \in WhitenedBlocks
       THEN j' = j + 1 /\ pc' = pc
       ELSE j' = j /\ pc' = "failed"
    /\ UNCHANGED <<epoch, i, vi, rnd, prec1, calls, argVars, resVars, flagVars,
                   optVars, diskVars, hooks, cur, preLen, rankVars, trainLog,
                   calibFwd, snap,
                   bestSeen, conceptOrder, commonOrder, orderVaried, usedPos,
                   usedBatches>>

\* The concept loader is exhausted: next round.
RotNextRound ==
    /\ pc = "rot_loop"
    /\ rnd < RotRounds
    /\ j >= nConcept
    /\ rnd' = rnd + 1
    /\ j' = 0
    /\ UNCHANGED <<pc, epoch, i, vi, prec1, calls, argVars, resVars, flagVars,
                   optVars, statVars, diskVars, hookVars, rankVars, ghostVars>>

\* Leave no_grad, change_mode(0).
RotEnd ==
    /\ pc = "rot_loop"
    /\ rnd >= RotRounds
    /\ grad' = TRUE
    /\ mode' = ChangeMode(NORMAL)
    /\ lastRet' = "rotate_cpt"
    /\ pc' = "evaluate"
    /\ UNCHANGED <<epoch, i, j, vi, rnd, prec1, calls, argVars, resVars, training,
                   optVars, statVars, diskVars, hookVars, print_other, k, li,
                   paths, vals, files, rowBlocks, ghostVars>>

(***************************************************************************)
(* print_concept_top5()                                                    *)
(***************************************************************************)
Min(a, b) == IF a <= b THEN a ELSE b

\* The source identifiers of the images of batch b of val_loader (shuffle=False).
BatchImages(b) ==
    [q \in 1..Min(BatchSize, valImages - b * BatchSize) |-> b * BatchSize + q]

\* output.sum((2,3))[:,axis] of one image at one block.
Score(block, axis, img) == (img * valPat + block + axis) % ScoreMod

\* '_'.join(layer_list)
RECURSIVE Join(_)
Join(l) == IF Len(l) = 1 THEN l[1] ELSE l[1] \o "_" \o Join(Tail(l))

\* The export folder (for the architecture "resnet").
Folder(po) ==
    "/usr/xtmp/zhichen/attention-module/plot/" \o Join(whitened_layers) \o (IF po THEN "_rot_otherdim/" ELSE "_rot/")

\* A file name that leaves the layer out.
FileNameNoLayer(po, layer, rank, axis) ==
    Folder(po) \o "layer" \o "_" \o ToString(rank)
        \o (IF po THEN "_dim" \o ToString(axis) ELSE "") \o ".jpg"

\* The name of the file of rank j+1 of a layer, for axis `axis`.
FileName(po, layer, rank, axis) ==
    Folder(po) \o "layer" \o layer \o "_" \o ToString(rank)
        \o (IF po THEN "_dim" \o ToString(axis) ELSE "") \o ".jpg"

\* list(zip(a, b))
Zip(a, b) == [n \in 1..Min(Len(a), Len(b)) |-> <<a[n], b[n]>>]

\* An order in which an element goes before the earlier elements of equal key.
StaysBeforeStrict(e, x) == e > x

\* Whether an element of key e stays before a later element of key x in a
\* descending stable sort: equal keys keep their order.
StaysBefore(e, x) == e >= x

\* arr.sort(key = lambda t: t[0], reverse = True): a stable descending sort.
\* An element ends after the earlier elements that stay before it and after the
\* later elements it does not stay before.
SortDesc(arr) ==
    LET pos(n) == 1 + Cardinality({m \in 1..(n - 1) : StaysBefore(arr[m][1], arr[n][1])})
                    + Cardinality({m \in (n + 1)..Len(arr) :
                                      ~StaysBefore(arr[n][1], arr[m][1])})
        placed == {<<pos(n), n>> : n \in 1..Len(arr)}
    IN [p \in 1..Len(arr) |-> arr[(CHOOSE pn \in placed : pn[1] = p)[2]]]

\* The files after copyfile(arr[j][1], name) for j in range(n), in order.
Copied(fs, arr, n, layer, block) ==
    LET named == {<<FileName(print_other, layer, r, k), r>> : r \in 1..n}
        last(nm) == CHOOSE r \in {pr[2] : pr \in {q \in named : q[1] = nm}} :
                        \A pr \in {q \in named : q[1] = nm} : pr[2] <= r
        new == [nm \in {pr[1] : pr \in named} |->
                   [src |-> arr[last(nm)][2],
                    by |-> (IF nm \in DOMAIN fs THEN fs[nm].by ELSE {})
                           \cup {[axis |-> k, layer |-> layer, block |-> block]}]]
    IN new @@ fs

\* The lists when the loop does not rebind outputs.
KeptOutputs == outputs

\* The list the hooks of this call append to, after `outputs = []`.
ClearedOutputs == [outputs EXCEPT ![cur] = <<>>]

\* model.eval(), the folder, outputs = [], the hooks, begin and end,
\* torch.no_grad(), and the first axis.
PctEntry(po) ==
    /\ training' = FALSE
    /\ print_other' = po
    /\ outputs' = Append(outputs, <<>>)
    /\ cur' = Len(outputs) + 1
    /\ hooks' = Register(hooks, whitened_layers, "pct", Len(outputs) + 1)
    /\ grad' = FALSE
    /\ k' = IF po THEN OtherBegin ELSE 0
    /\ paths' = <<>>
    /\ vals' = <<>>
    /\ rowBlocks' = <<>>
    /\ vi' = 0
    /\ li' = 0
    /\ pc' = "pct_loop"
    /\ UNCHANGED <<epoch, i, j, rnd, prec1, argVars, resVars, mode, optVars,
                   statVars, diskVars, preLen, files, lastRet, ghostVars>>

\* main(): the epochs are over, print_concept_top5(val_loader_2, model, ...).
PctFromMain ==
    /\ pc = "epoch_loop"
    /\ epoch >= start_epoch + NumEpochs
    /\ PctEntry(FALSE)
    /\ UNCHANGED calls

\* The evaluate branch calls print_concept_top5.
PctFromEval ==
    /\ Call
    /\ \E po \in BOOLEAN : PctEntry(po)

\* One batch of val_loader: paths, outputs = [], model(input_var), val, vals.
PctForward ==
    /\ pc = "pct_loop"
    /\ vi < NumValBatches
    /\ paths' = paths \o BatchImages(vi)
    /\ preLen' = Len(ClearedOutputs[cur])
    /\ ModelForward(ClearedOutputs, "rank_fwd", "val", vi)
    /\ LET caught == outputs'[cur]
           val == [r \in 1..Len(caught) |->
                      [q \in 1..Len(BatchImages(vi)) |->
                          Score(caught[r].block, k, BatchImages(vi)[q])]]
       IN IF caught = <<>>
          THEN \* reshape((0, -1)) of an empty array raises
               /\ pc' = "failed"
               /\ UNCHANGED <<vals, rowBlocks, vi>>
          ELSE /\ vals' = IF vi = 0 THEN val
                          ELSE [r \in 1..Len(vals) |-> vals[r] \o val[r]]
               /\ rowBlocks' = [r \in 1..Len(caught) |-> caught[r].block]
               /\ vi' = vi + 1
               /\ pc' = pc
    /\ UNCHANGED <<epoch, i, j, rnd, prec1, calls, argVars, resVars, flagVars,
                   optVars, diskVars, hooks, cur, print_other, k, li, files, lastRet,
                   trainLog, calibFwd, snap,
                   bestSeen, conceptOrder, commonOrder, orderVaried, usedPos,
                   usedBatches>>

\* val_loader is exhausted: the export loop over layer_list starts.
PctLoopEnd ==
    /\ pc = "pct_loop"
    /\ vi >= NumValBatches
    /\ li' = 0
    /\ pc' = "pct_export"
    /\ UNCHANGED <<epoch, i, j, vi, rnd, prec1, calls, argVars, resVars, flagVars,
                   optVars, statVars, diskVars, hookVars, print_other, k, paths, vals,
                   files, rowBlocks, lastRet, ghostVars>>

\* One layer of layer_list: arr, arr.sort, and the copies of arr[0..49].
PctExport ==
    /\ pc = "pct_export"
    /\ li < Len(whitened_layers)
    /\ IF li + 1 > Len(vals)
       THEN \* vals[i,:] is out of bounds
            /\ pc' = "failed"
            /\ UNCHANGED <<li, files>>
       ELSE LET arr == SortDesc(Zip(vals[li + 1], paths))
                n == Min(TopK, Len(arr))
            IN /\ files' = Copied(files, arr, n, whitened_layers[li + 1],
                                  rowBlocks[li + 1])
               /\ IF Len(arr) < TopK
                  THEN \* arr[j] is out of range
                       pc' = "failed" /\ li' = li
                  ELSE pc' = pc /\ li' = li + 1
    /\ UNCHANGED <<epoch, i, j, vi, rnd, prec1, calls, argVars, resVars, flagVars,
                   optVars, statVars, diskVars, hookVars, print_other, k, paths, vals,
                   rowBlocks, lastRet, ghostVars>>

\* The last axis of range(begin, end), exclusive.
AxisEnd == IF print_other THEN OtherEnd ELSE 1

\* The layers are exported: the next axis, or return 0.
PctNextAxis ==
    /\ pc = "pct_export"
    /\ li >= Len(whitened_layers)
    /\ IF k + 1 < AxisEnd
       THEN /\ k' = k + 1
            /\ paths' = <<>>
            /\ vals' = <<>>
            /\ vi' = 0
            /\ pc' = "pct_loop"
            /\ UNCHANGED <<grad, lastRet>>
       ELSE /\ grad' = TRUE
            /\ lastRet' = "print_concept_top5"
            /\ pc' = IF entry = "main" THEN "done" ELSE "evaluate"
            /\ UNCHANGED <<k, paths, vals, vi>>
    /\ UNCHANGED <<epoch, i, j, rnd, prec1, calls, argVars, resVars, training, mode,
                   optVars, statVars, diskVars, hookVars, print_other, li, files,
                   rowBlocks, ghostVars>>

NextInspect ==
    \/ GodBegin \/ GodForward \/ GodEnd
    \/ RotBegin \/ RotForward \/ RotNextRound \/ RotEnd
    \/ PctFromMain \/ PctFromEval \/ PctForward \/ PctLoopEnd \/ PctExport
    \/ PctNextAxis

Next == NextTrain \/ NextInspect

Spec == Init /\ [][Next]_vars

(***************************************************************************)
(* Properties                                                              *)
(***************************************************************************)
SubpassPcs == {"calib_loop", "calib_end"}

ClassificationOps ==
    {"classify_fwd", "backward", "optim_step", "val_fwd", "save", "rank_fwd"}

\* C1: while the program runs, the mode is CALIBRATE only inside a calibration sub-pass of train or
\* inside rotate_cpt, between change_mode(1) and change_mode(0); every
\* classification forward pass, backward pass, optimizer step, validation
\* forward pass, ranking forward pass and checkpoint save runs in mode NORMAL,
\* and every concept forward pass of a sub-pass or of rotate_cpt in CALIBRATE.
C1_ModeOnlyInSubpass ==
    /\ (mode = CALIBRATE /\ pc # "failed") => pc \in SubpassPcs \cup {"rot_loop"}
    /\ pc \in SubpassPcs \cup {"rot_loop"} => mode = CALIBRATE
    /\ lastOp.kind \in ClassificationOps => lastOp.mode = NORMAL
    /\ lastOp.kind \in {"concept_fwd", "rot_fwd"} => lastOp.mode = CALIBRATE

\* A sub-pass has just ended and the classification step of its batch starts.
C1_Witness ==
    /\ pc = "classify"
    /\ lastOp.kind = "concept_fwd"
    /\ mode = NORMAL

\* The train call has returned and its log is complete.
TrainReturned ==
    \/ pc \in {"val_loop", "save"}
    \/ pc \in {"epoch_loop", "pct_loop", "pct_export", "done"} /\ epoch > start_epoch

Count(log_, e) == Cardinality({n \in 1..Len(log_) : log_[n] = e})

\* C2: in every epoch a sub-pass ends immediately before the forward pass of
\* batch b exactly when (b + 1) mod 2 = 0, every sub-pass is followed by the
\* forward pass of its batch, and when train returns every batch of the loader
\* has had exactly one forward pass and one optimizer step, in order.
C2_CadenceAndOnce ==
    /\ \A n \in 1..Len(trainLog) :
        /\ trainLog[n][1] = "fwd" =>
              ((n > 1 /\ trainLog[n - 1] = <<"calib", trainLog[n][2]>>)
                  <=> (trainLog[n][2] + 1) % 2 = 0)
        /\ (trainLog[n][1] = "calib" /\ n < Len(trainLog)) =>
              trainLog[n + 1] = <<"fwd", trainLog[n][2]>>
        /\ (trainLog[n][1] = "fwd" /\ n < Len(trainLog)) =>
              trainLog[n + 1] = <<"step", trainLog[n][2]>>
    /\ \A b \in 0..(MaxTrainBatches + 1) :
        /\ Count(trainLog, <<"fwd", b>>) <= 1
        /\ Count(trainLog, <<"step", b>>) <= 1
        /\ (entry = "main" /\ TrainReturned) =>
              /\ Count(trainLog, <<"fwd", b>>) = (IF b < nTrain THEN 1 ELSE 0)
              /\ Count(trainLog, <<"step", b>>) = (IF b < nTrain THEN 1 ELSE 0)

\* train has returned from a loader of three batches: one sub-pass, before batch 1.
C2_Witness ==
    /\ pc = "save"
    /\ nTrain = 3
    /\ Count(trainLog, <<"calib", 1>>) = 1
    /\ Len(trainLog) = 7

\* C3: a calibration sub-pass of train makes exactly one forward pass between
\* change_mode(1) and change_mode(0), whatever the number of concept batches.
C3_OneConceptBatch ==
    /\ calibFwd <= 1
    /\ pc = "calib_end" => calibFwd = 1
    /\ (pc = "classify" /\ NeedsCalibration(i)) => calibFwd = 1

\* A sub-pass is about to end on a concept loader of more than one batch.
C3_Witness ==
    /\ pc = "calib_end"
    /\ nConcept >= 2
    /\ calibFwd = 1

\* C4: from the start of a calibration sub-pass to the classification step that
\* follows it, the parameters, the optimizer state, running_mean and running_wm
\* are what they were when the sub-pass started, no gradient is computed, and
\* only the rotation matrix has changed, once per concept forward pass.
C4_SubpassFrame ==
    (pc \in SubpassPcs \/ (pc = "classify" /\ NeedsCalibration(i))) =>
        /\ params = snap.params
        /\ optState = snap.optState
        /\ runningMean = snap.runningMean
        /\ runningWM = snap.runningWM
        /\ rotationMatrix = snap.rotationMatrix + calibFwd
        /\ ~gradsFresh

\* A sub-pass has updated the rotation matrix of a model whose running
\* statistics and parameters have already been written by training.
C4_Witness ==
    /\ pc = "classify"
    /\ lastOp.kind = "concept_fwd"
    /\ rotationMatrix = snap.rotationMatrix + 1
    /\ snap.params > 0
    /\ snap.runningMean > 0

\* C5: every concept forward pass of a sub-pass runs in evaluation mode without
\* gradient tracking; every classification forward pass, backward pass and
\* optimizer step of train runs in training mode with gradient tracking, also
\* right after a sub-pass and after a validate call.
C5_Semantics ==
    /\ lastOp.kind = "concept_fwd" => (~lastOp.training /\ ~lastOp.grad)
    /\ lastOp.kind \in {"classify_fwd", "backward", "optim_step"} =>
          (lastOp.training /\ lastOp.grad)
    /\ pc \in {"classify", "backward", "step"} => (training /\ grad)

\* The first classification step of an epoch that follows a validate call.
C5_Witness ==
    /\ lastOp.kind = "classify_fwd"
    /\ lastOp.training
    /\ epoch > start_epoch
    /\ i = 0

\* The hooks the running call registered.
OwnHooks == {h \in 1..Len(hooks) : hooks[h].cell = cur}

\* C6 as claimed: whenever a forward pass starts in get_optimal_direction or in
\* print_concept_top5, the list of the running call is empty, and the list never
\* holds more tensors than there are configured layers.
C6_EmptyAtEveryForward ==
    /\ lastOp.kind \in {"god_fwd", "rank_fwd"} => preLen = 0
    /\ pc \in {"god_loop", "pct_loop", "pct_export"} =>
          Len(outputs[cur]) <= Len(whitened_layers)

\* C6 amended: in print_concept_top5 the list of the running call is empty when
\* a forward pass starts, holds only tensors of the latest forward pass and never
\* more than one per configured layer; in get_optimal_direction the list is not
\* cleared: when the forward pass of concept batch b starts it holds b tensors
\* for every hook the call registered.
C6_EmptyInRankingOnly ==
    /\ lastOp.kind = "rank_fwd" => preLen = 0
    /\ pc \in {"pct_loop", "pct_export"} =>
          /\ Len(outputs[cur]) <= Len(whitened_layers)
          /\ Len(outputs[cur]) \in {0, Cardinality(OwnHooks)}
          /\ (pc = "pct_loop" /\ vi > 0) =>
                \A n \in 1..Len(outputs[cur]) :
                    /\ outputs[cur][n].loader = "val"
                    /\ outputs[cur][n].batch = vi - 1
    /\ pc = "god_loop" =>
          /\ Len(outputs[cur]) = j * Cardinality(OwnHooks)
          /\ j > 0 => preLen = (j - 1) * Cardinality(OwnHooks)

\* The second batch of a ranking pass has been captured by a call that runs
\* while the hooks and the list of an earlier call are still in place.
C6_Witness ==
    /\ pc = "pct_loop"
    /\ vi = 2
    /\ cur = 2
    /\ Len(outputs[1]) > Len(whitened_layers)
    /\ Len(outputs[2]) = Len(whitened_layers)
    /\ preLen = 0

\* The layers of the configuration are in ascending depth order.
Ascending(l) == \A a, b \in 1..Len(l) : a < b => IntOf(l[a]) <= IntOf(l[b])

\* Every captured tensor and every exported list comes from the layer whose
\* position in the configuration it is used for.
Positional ==
    /\ lastOp.kind = "rank_fwd" =>
          \A n \in 1..Len(outputs[cur]) :
              n <= Len(whitened_layers)
                  /\ outputs[cur][n].block = IntOf(whitened_layers[n])
    /\ \A nm \in DOMAIN files : \A w \in files[nm].by : w.block = IntOf(w.layer)

\* The tensors of one forward pass are in forward-pass execution order.
ExecutionOrder ==
    lastOp.kind = "rank_fwd" =>
        \A a, b \in 1..Len(outputs[cur]) :
            a < b => outputs[cur][a].block <= outputs[cur][b].block

\* C7 as claimed: for every configuration the tensors of a forward pass are in
\* execution order, the i-th one is the activation of the i-th configured
\* layer, and the list exported under a layer's name comes from that layer.
C7_PositionalForAll == ExecutionOrder /\ Positional

\* C7 amended: the tensors of a forward pass are in execution order for every
\* configuration; the i-th one is the activation of the i-th configured layer,
\* and the list exported under a layer's name comes from that layer, when the
\* configuration lists the layers in ascending depth order.
C7_PositionalWhenAscending ==
    /\ ExecutionOrder
    /\ Ascending(whitened_layers) => Positional

\* The lists of the three default layers are exported, the second from block 2.
C7_Witness ==
    /\ pc = "done"
    /\ whitened_layers = <<"1", "2", "3">>
    /\ \E nm \in DOMAIN files : \E w \in files[nm].by : w.layer = "2" /\ w.block = 2

\* The rows of vals and paths cover the whole validation set.
ValsComplete ==
    /\ vals # <<>>
    /\ Len(paths) = valImages
    /\ \A r \in 1..Len(vals) : Len(vals[r]) = valImages

\* The rank of position m in a row: one more than the number of positions with
\* a higher score, or with the same score and earlier in iteration order.
RankOf(row, m) ==
    1 + Cardinality({x \in 1..Len(row) :
                        row[x] > row[m] \/ (row[x] = row[m] /\ x < m)})

\* C8: for every layer and axis, the file of rank r holds the image that has
\* rank r when the images are ordered by descending score, equal scores in
\* validation iteration order; once the layer is exported the ranks 1..50 are
\* all there.  The scores are those of the row the list is computed from.
C8_StableTopK ==
    ValsComplete =>
        \A l \in 1..Min(Len(whitened_layers), Len(vals)) :
            /\ \A m \in 1..Len(paths) :
                  LET r == RankOf(vals[l], m)
                      nm == FileName(print_other, whitened_layers[l], r, k)
                  IN (r <= TopK /\ nm \in DOMAIN files) => files[nm].src = paths[m]
            /\ (pc = "pct_export" /\ l <= li) =>
                  \A r \in 1..TopK :
                      FileName(print_other, whitened_layers[l], r, k) \in DOMAIN files

\* All layers are exported from a validation set of more than 50 images whose
\* scores repeat, so that the cut at rank 50 and the ties both matter.
C8_Witness ==
    /\ pc = "pct_export"
    /\ li = Len(whitened_layers)
    /\ valImages > TopK
    /\ valPat = 1
    /\ \E a, b \in 1..Len(paths) : a < b /\ vals[1][a] = vals[1][b]
    /\ \E a, b \in 1..Len(paths) : a < b /\ vals[1][a] < vals[1][b]

\* The axes one call ranks.
Axes(po) == IF po THEN OtherBegin..(OtherEnd - 1) ELSE {0}

\* C9: when print_concept_top5 returns, every pair of an axis of the call and a
\* configured layer has its 50 files, and no file name is ever written for two
\* different pairs.
C9_OneListPerPair ==
    /\ \A nm \in DOMAIN files :
          Cardinality({<<w.axis, w.layer>> : w \in files[nm].by}) = 1
    /\ (lastRet = "print_concept_top5" /\ pc \in {"done", "evaluate"}) =>
          \A a \in Axes(print_other) : \A l \in 1..Len(whitened_layers) :
              \A r \in 1..TopK :
                  LET nm == FileName(print_other, whitened_layers[l], r, a)
                  IN /\ nm \in DOMAIN files
                     /\ \E w \in files[nm].by :
                           w.axis = a /\ w.layer = whitened_layers[l]

\* A call with print_other has returned the lists of ten axes and several layers.
C9_Witness ==
    /\ pc = "evaluate"
    /\ lastRet = "print_concept_top5"
    /\ print_other
    /\ Len(whitened_layers) >= 2
    /\ Cardinality(DOMAIN files) >= 2 * TopK * (OtherEnd - OtherBegin)

\* main was started with a resume path that names no file, and is past the
\* resume code.
MissingCheckpoint == resume /\ ~fileExists /\ pc # "main"

\* Nothing was loaded: the message, the flags, and until the first training
\* step and the first validation the initial versions and the default best score.
NothingLoaded ==
    /\ "no checkpoint found" \in log
    /\ "loaded checkpoint" \notin log
    /\ ~stateLoaded /\ ~optLoaded
    /\ pc # "failed"
    /\ lastOp.kind = "none" => (params = 0 /\ optState = 0 /\ runningMean = 0)
    /\ checkpoint = NoFile => best_prec1 = DefaultBest

\* C10 as claimed: after a resume path without a file nothing is loaded and
\* training starts with epoch 0 and best score 0.
C10_FromEpochZero ==
    MissingCheckpoint =>
        /\ NothingLoaded
        /\ start_epoch = 0
        /\ checkpoint = NoFile => epoch = 0

\* C10 amended: after a resume path without a file nothing is loaded and
\* training starts with the epoch given by --start-epoch (0 by default) and
\* best score 0.
C10_FromStartEpochArg ==
    MissingCheckpoint =>
        /\ NothingLoaded
        /\ start_epoch = startEpochArg
        /\ checkpoint = NoFile => epoch = startEpochArg

\* Training has started at epoch 1 after a resume path without a file.
C10_Witness ==
    /\ MissingCheckpoint
    /\ startEpochArg = 1
    /\ epoch = 1
    /\ lastOp.kind = "classify_fwd"

(***************************************************************************)
(* C11: the best score stored in the checkpoints                           *)
(***************************************************************************)
\* The best score main starts from: 0, or the value loaded on resume.
StartBest == IF resume /\ fileExists THEN resumeCkpt.best_prec1 ELSE DefaultBest

\* The files main has written.
Written == {f \in {checkpoint, model_best} : f # NoFile}

\* The latest checkpoint stores the largest of the starting best score and the
\* scores validate has returned; the best-model file is a copy of a checkpoint
\* whose score was the largest at the time, and is the copy of the latest
\* checkpoint when validate has not returned since.
BestIsMaximum ==
    /\ (checkpoint # NoFile /\ pc # "save") =>
           checkpoint.best_prec1 = Largest({StartBest} \cup bestSeen)
    /\ model_best # NoFile =>
           /\ \E x \in bestSeen : model_best.best_prec1 <= x
           /\ model_best.best_prec1 > StartBest
           /\ pc # "save" => model_best.best_prec1 = checkpoint.best_prec1
    /\ \A f \in Written : f.best_prec1 >= StartBest

\* A write of a file over an earlier one does not lower the stored best score.
NeverDecreases ==
    /\ (checkpoint # NoFile /\ checkpoint' # NoFile) =>
           checkpoint'.best_prec1 >= checkpoint.best_prec1
    /\ (model_best # NoFile /\ model_best' # NoFile) =>
           model_best'.best_prec1 >= model_best.best_prec1

\* C11: the best score stored in every checkpoint main writes is the maximum
\* of the starting best score (0, or the value loaded on resume) and of all
\* validation scores obtained so far; it never decreases from one checkpoint
\* to the next, and is never below the best score of the checkpoint the run
\* resumed from.
C11_BestIsRunningMaximum == []BestIsMaximum /\ [][NeverDecreases]_vars

\* A run resumed from a checkpoint has validated to a higher and then to a lower
\* score, and has written the checkpoint of the lower-scoring epoch.
C11_Witness ==
    /\ resume /\ fileExists /\ resumeCkpt.best_prec1 = 0
    /\ pc = "epoch_loop"
    /\ bestSeen = {MaxPrec}
    /\ prec1 = 0
    /\ checkpoint.epoch = epoch
    /\ checkpoint.best_prec1 = MaxPrec
    /\ model_best # NoFile /\ model_best.epoch < checkpoint.epoch
(***************************************************************************)
(* C12: the rotation matrix stays orthogonal                               *)
(***************************************************************************)
\* (M / den)^T (M / den) = Identity.
Orthogonal(R) ==
    MatMul(Transpose(R.m), R.m) = [r \in 1..2 |-> [c \in 1..2 |->
                                      IF r = c THEN R.den * R.den ELSE 0]]

FixedOrder == ~orderVaried /\ commonOrder # <<>>

\* C13: every calibration sub-pass of train starts a new iteration over the
\* concept loader and consumes the batch at its first position only; when the
\* batch order is the same in every iteration, every sub-pass of every epoch
\* consumes the same batch, the first of that order, and no later batch of the
\* order is ever consumed.
C13_FreshIterationFirstBatch ==
    /\ usedPos \subseteq {0}
    /\ pc = "calib_loop" => j = 0
    /\ FixedOrder =>
           /\ usedBatches \subseteq {commonOrder[1]}
           /\ \A q \in 2..Len(commonOrder) : commonOrder[q] \notin usedBatches

\* In the second epoch or later, a sub-pass has consumed its batch of a concept
\* loader of several batches, and every iteration so far drew the same order.
C13_Witness ==
    /\ pc = "calib_end"
    /\ epoch > start_epoch
    /\ nConcept >= 2
    /\ FixedOrder
    /\ usedPos = {0}
    /\ usedBatches = {commonOrder[1]}
====
